---- MODULE Spec2Model ----
(***************************************************************************)
(* Content versioning and chunking pipeline of backend_brt-main:           *)
(*   app/services/vectorizer.py          (Vectorizer)                      *)
(*   app/services/document_processor.py  (DocumentProcessor)               *)
(* Texts are sequences of one-character strings.                           *)
(***************************************************************************)
EXTENDS Integers, Sequences, FiniteSets, TLC

\* ---------------------------------------------------------------- bounds
MaxLen == 8
MaxRawLen == 6
MaxChunkSize == 7
MaxChunks == 9
MaxBack == 3
MaxTime == 1
MaxCalls == 3

\* --------------------------------------------------------------- alphabet
Letters == {"a", ".", " "}
Whitespace == {" ", "\n"}
Chars == Letters \cup Whitespace

SeqsUpTo(S, n) == UNION {[1..k -> S] : k \in 0..n}

\* Inputs of chunk_text: every text over Chars up to MaxRawLen, and every
\* text over Letters up to MaxLen.
Texts == SeqsUpTo(Chars, MaxRawLen) \cup SeqsUpTo(Letters, MaxLen)

\* The Vectorizer object (chunk_size, chunk_overlap) and one call of
\* chunk_text: its argument content, its locals text, start, chunks, and pc.
VARIABLES chunk_size, chunk_overlap, content, text, start, chunks, pc

\* The MongoDB collection, the document_embeddings table, the clock, the
\* server's treatment of a "$"-prefixed key under $set, the handler calls in
\* flight, the last value returned, and bookkeeping for the properties.
VARIABLES documents, embeddings, now, dollar_keys, calls, ret,
          n_calls, n_success, patched_keys

configVars == <<chunk_size, chunk_overlap>>
chunkVars == <<content, text, start, chunks, pc>>
storeVars == <<documents, embeddings, now, dollar_keys, calls, ret,
               n_calls, n_success, patched_keys>>
vars == <<configVars, chunkVars, storeVars>>

\* ------------------------------------------------------ store inputs
DocIds == {"d1", "d2"}
Procs == {1, 2}
Contents == {<<>>, <<" ">>, <<"a">>, <<"a", "b", "c">>}
Keys == {"title", "k"}

\* A dict over Keys; the metadata argument of update_document is None
\* (given = FALSE) or such a dict.
Dicts == {<<>>} \cup {[x \in {k} |-> "new"] : k \in Keys}
Patches == {[given |-> FALSE, dict |-> <<>>]}
             \cup {[given |-> TRUE, dict |-> m] : m \in Dicts}

\* Vectorizer(chunk_size, chunk_overlap) as constructed for the store: one
\* under which the longest of Contents is cut into two chunks.
StoreConfigs == {<<2, 0>>}

Idle == [op |-> "idle"]

\* Arguments of update_embedding: the chunk ids a document of at most two
\* chunks can have, and two vectors.
EmbeddingIds == {d \o "-chunk-" \o ToString(i) : d \in DocIds, i \in 0..1}
Vectors == {<<1>>, <<2>>}

\* ------------------------------------------------------- Python helpers
Max(a, b) == IF a >= b THEN a ELSE b
Min(a, b) == IF a <= b THEN a ELSE b

\* s[i:j] with Python's treatment of negative and out-of-range indices.
SliceIndex(k, n) == IF k < 0 THEN Max(k + n, 0) ELSE Min(k, n)

\* The slice taken from one character after i.
SliceSkipsFirst(s, i, j) ==
  LET lo == SliceIndex(i + 1, Len(s))
      hi == SliceIndex(j, Len(s))
  IN  IF hi <= lo THEN <<>> ELSE SubSeq(s, lo + 1, hi)

Slice(s, i, j) ==
  LET lo == SliceIndex(i, Len(s))
      hi == SliceIndex(j, Len(s))
  IN  IF hi <= lo THEN <<>> ELSE SubSeq(s, lo + 1, hi)

\* s.rfind(c1 + c2): highest 0-based index of the two-character pattern, or -1.
RFind(s, c1, c2) ==
  LET hits == {i \in 0..(Len(s) - 2) : s[i + 1] = c1 /\ s[i + 2] = c2}
  IN  IF hits = {} THEN -1 ELSE CHOOSE i \in hits : \A j \in hits : j <= i

\* The substitution with the pattern ' +': runs of spaces only.
RECURSIVE CollapseSpacesOnly(_)
CollapseSpacesOnly(s) ==
  IF s = <<>> THEN <<>>
  ELSE IF Head(s) = " "
       THEN IF Len(s) >= 2 /\ s[2] = " "
            THEN CollapseSpacesOnly(Tail(s))
            ELSE <<" ">> \o CollapseSpacesOnly(Tail(s))
       ELSE <<Head(s)>> \o CollapseSpacesOnly(Tail(s))

\* re.sub(r'\s+', ' ', text): every maximal run of whitespace becomes one space.
RECURSIVE Collapse(_)
Collapse(s) ==
  IF s = <<>> THEN <<>>
  ELSE IF Head(s) \in Whitespace
       THEN IF Len(s) >= 2 /\ s[2] \in Whitespace
            THEN Collapse(Tail(s))
            ELSE <<" ">> \o Collapse(Tail(s))
       ELSE <<Head(s)>> \o Collapse(Tail(s))

\* str.strip(): leading and trailing whitespace removed.
RECURSIVE LStrip(_)
LStrip(s) ==
  IF s # <<>> /\ Head(s) \in Whitespace THEN LStrip(Tail(s)) ELSE s

RECURSIVE RStrip(_)
RStrip(s) ==
  IF s # <<>> /\ s[Len(s)] \in Whitespace
  THEN RStrip(SubSeq(s, 1, Len(s) - 1)) ELSE s

\* strip() that forgets the trailing whitespace.
StripLeftOnly(s) == LStrip(s)

Strip(s) == RStrip(LStrip(s))

Normalize(s) == Strip(Collapse(s))

\* The iteration with the slice taken one character past end.
LoopBodyInclusiveEnd(t, st, size, overlap) ==
  LET end0 == st + size
      end1 == IF end0 > Len(t) THEN Len(t) ELSE end0
      chunk0 == Slice(t, st, end1 + 1)
      para_break == RFind(chunk0, "\n", "\n")
      sentence_break == RFind(chunk0, ".", " ")
      cut == IF end1 < Len(t)
             THEN IF para_break # -1 /\ para_break > size \div 2
                  THEN [chunk |-> Slice(chunk0, 0, para_break),
                        end |-> st + para_break]
                  ELSE IF sentence_break # -1 /\ sentence_break > size \div 2
                       THEN [chunk |-> Slice(chunk0, 0, sentence_break + 1),
                             end |-> st + sentence_break + 1]
                       ELSE [chunk |-> chunk0, end |-> end1]
             ELSE [chunk |-> chunk0, end |-> end1]
  IN  [chunk |-> cut.chunk, end |-> cut.end, next |-> cut.end - overlap]

\* One iteration of the while loop of chunk_text (lines 33-54) at cursor st:
\* the chunk appended, the end it was cut at, and the next cursor.
LoopBody(t, st, size, overlap) ==
  LET end0 == st + size
      end1 == IF end0 > Len(t) THEN Len(t) ELSE end0
      chunk0 == Slice(t, st, end1)
      para_break == RFind(chunk0, "\n", "\n")
      sentence_break == RFind(chunk0, ".", " ")
      cut == IF end1 < Len(t)
             THEN IF para_break # -1 /\ para_break > size \div 2
                  THEN [chunk |-> Slice(chunk0, 0, para_break),
                        end |-> st + para_break]
                  ELSE IF sentence_break # -1 /\ sentence_break > size \div 2
                       THEN [chunk |-> Slice(chunk0, 0, sentence_break + 1),
                             end |-> st + sentence_break + 1]
                       ELSE [chunk |-> chunk0, end |-> end1]
             ELSE [chunk |-> chunk0, end |-> end1]
  IN  [chunk |-> cut.chunk, end |-> cut.end, next |-> cut.end - overlap]

\* chunk_text as a function (lines 16-56).  The loop is deterministic in the
\* cursor, so it diverges exactly when a cursor value repeats or the cursor
\* falls without bound; ok = FALSE stands for a call that never returns.
RECURSIVE ChunkLoopFrom(_, _, _, _, _, _)
ChunkLoopFrom(t, st, size, overlap, acc, seen) ==
  IF ~(st < Len(t)) THEN [ok |-> TRUE, chunks |-> acc]
  ELSE IF st \in seen \/ st < -MaxBack THEN [ok |-> FALSE, chunks |-> acc]
  ELSE LET b == LoopBody(t, st, size, overlap)
       IN  ChunkLoopFrom(t, b.next, size, overlap,
                         Append(acc, b.chunk), seen \cup {st})

ChunkText(c, size, overlap) ==
  IF c = <<>> THEN [ok |-> TRUE, chunks |-> <<>>]
  ELSE LET t == Normalize(c)
       IN  IF Len(t) <= size THEN [ok |-> TRUE, chunks |-> <<t>>]
           ELSE ChunkLoopFrom(t, 0, size, overlap, <<>>, {})

\* ------------------------------------------------- chunk_text, stepwise
\* pc: "call" before the call, "loop" at the head of the while loop,
\* "done" after a return.

StoreIdle ==
  /\ documents = <<>>
  /\ embeddings = <<>>
  /\ now = 0
  /\ dollar_keys = "reject"
  /\ calls = [p \in Procs |-> Idle]
  /\ ret = [op |-> "none"]
  /\ n_calls = 0
  /\ n_success = [d \in DocIds |-> 0]
  /\ patched_keys = [d \in DocIds |-> {}]

\* The overlaps tried with a chunk_size: every one below it, and the first
\* one that is not.
Overlaps(size) == 0..size

ChunkInitOver(T) ==
  /\ chunk_size \in 1..MaxChunkSize
  /\ chunk_overlap \in Overlaps(chunk_size)
  /\ content \in T
  /\ text = content
  /\ start = 0
  /\ chunks = <<>>
  /\ pc = "call"
  /\ StoreIdle

ChunkInit == ChunkInitOver(Texts)

\* lines 18-29: the empty test, the clean-up, the single-chunk return.
ChunkEntry ==
  /\ pc = "call"
  /\ IF text = <<>>
     THEN /\ chunks' = <<>>
          /\ pc' = "done"
          /\ text' = text
     ELSE /\ text' = Normalize(text)
          /\ IF Len(text') <= chunk_size
             THEN chunks' = <<text'>> /\ pc' = "done"
             ELSE chunks' = <<>> /\ pc' = "loop"
  /\ start' = 0
  /\ UNCHANGED <<configVars, content, storeVars>>

\* lines 31-54: one iteration.  chunks keeps the first MaxChunks chunks;
\* the cursor is followed down to -MaxBack.
ChunkLoop ==
  /\ pc = "loop"
  /\ start < Len(text)
  /\ start >= -MaxBack
  /\ LET b == LoopBody(text, start, chunk_size, chunk_overlap)
     IN  /\ chunks' = IF Len(chunks) < MaxChunks
                      THEN Append(chunks, b.chunk) ELSE chunks
         /\ start' = b.next
  /\ UNCHANGED <<configVars, content, text, pc, storeVars>>

\* lines 31, 56: the loop condition fails and chunks is returned.
ChunkReturn ==
  /\ pc = "loop"
  /\ ~(start < Len(text))
  /\ pc' = "done"
  /\ UNCHANGED <<configVars, content, text, start, chunks, storeVars>>

ChunkNext == ChunkEntry \/ ChunkLoop \/ ChunkReturn

ChunkSpec == ChunkInit /\ [][ChunkNext]_vars

\* ------------------------------------------------------------ the store
\* {**a, **b}: the keys of both, b's value where both have the key.
Merge(a, b) ==
  [k \in (DOMAIN a) \cup (DOMAIN b) |-> IF k \in DOMAIN b THEN b[k] ELSE a[k]]

\* Python truth value of the metadata argument (line 65).
Truthy(m) == m.given /\ DOMAIN m.dict # {}

\* The chunk id numbered from one.
ChunkIdOneBased(document_id, i) == document_id \o "-chunk-" \o ToString(i + 1)

\* f"{document_id}-chunk-{i}" (line 78).
ChunkId(document_id, i) == document_id \o "-chunk-" \o ToString(i)

\* db.query(DocumentEmbedding).filter(document_id == d).all() and the
\* listing built from it (lines 98-109), in insertion order.
DocumentChunks(d) ==
  LET rows == SelectSeq(embeddings, LAMBDA r : r.document_id = d)
  IN  [i \in 1..Len(rows) |->
         [chunk_id |-> rows[i].chunk_id,
          chunk_text |-> rows[i].chunk_text,
          embedding |-> rows[i].embedding]]

Init ==
  /\ \E cfg \in StoreConfigs : chunk_size = cfg[1] /\ chunk_overlap = cfg[2]
  /\ content = <<>>
  /\ text = <<>>
  /\ start = 0
  /\ chunks = <<>>
  /\ pc = "done"
  /\ documents = <<>>
  /\ embeddings = <<>>
  /\ now = 0
  /\ dollar_keys \in {"reject", "store"}
  /\ calls = [p \in Procs |-> Idle]
  /\ ret = [op |-> "none"]
  /\ n_calls = 0
  /\ n_success = [d \in DocIds |-> 0]
  /\ patched_keys = [d \in DocIds |-> {}]

\* The values datetime.utcnow() can return when the last value read was t.
Later(t) == {u \in t..(t + 1) : u <= MaxTime}

\* The handler calls run on interchangeable workers; a new call takes the
\* lowest-numbered idle one.
FreeWorker(p) ==
  /\ calls[p] = Idle
  /\ \A q \in Procs : calls[q] = Idle => p <= q

\* The order in which uuid4 hands out the identifiers.
IdBefore(e, d) == e = "d1" /\ d = "d2"

\* process_document (lines 16-41): uuid4 yields an unused id.
Create(d, c, title) ==
  /\ d \notin DOMAIN documents
  /\ \A e \in DocIds \ DOMAIN documents : ~IdBefore(e, d)
  /\ n_calls < MaxCalls
  /\ n_calls' = n_calls + 1
  /\ \E t1 \in Later(now) : \E t2 \in Later(t1) :
       /\ documents' = documents @@
            (d :> [content |-> c,
                   metadata |-> [k \in {"title"} |-> title],
                   version_history |-> <<>>,
                   created_at |-> t1,
                   updated_at |-> t2,
                   push |-> <<>>])
       /\ now' = t2
  /\ ret' = [op |-> "process_document", document_id |-> d, result |-> d]
  /\ UNCHANGED <<configVars, chunkVars, embeddings, dollar_keys, calls,
                 n_success, patched_keys>>

\* An unknown id reported as a success.
UpdateMissingSucceeds(d) ==
  [op |-> "update_document", document_id |-> d, result |-> TRUE]

\* update_document, lines 48-49: what the call returns for an unknown id.
UpdateMissing(d) ==
  [op |-> "update_document", document_id |-> d, result |-> FALSE]

\* update_document, lines 47-66: find_one, the early return, and the
\* version entry and update data built from the document that was read.
\* The two utcnow() readings of lines 55 and 61 fall in the same tick.
UpdateRead(p, d, c, m) ==
  /\ FreeWorker(p)
  /\ n_calls < MaxCalls
  /\ n_calls' = n_calls + 1
  /\ IF d \notin DOMAIN documents
     THEN /\ ret' = UpdateMissing(d)
          /\ UNCHANGED <<calls, now>>
     ELSE \E t1 \in Later(now) :
          LET t2 == t1
              current_doc == documents[d]
              version_entry == [content |-> current_doc.content,
                                metadata |-> current_doc.metadata,
                                timestamp |-> t1]
          IN  /\ calls' = [calls EXCEPT ![p] =
                   [op |-> "update_document",
                    document_id |-> d,
                    patch |-> IF m.given THEN m.dict ELSE <<>>,
                    update_data |->
                      [content |-> c,
                       updated_at |-> t2,
                       push |-> <<version_entry>>,
                       metadata |-> IF Truthy(m)
                                    THEN <<Merge(current_doc.metadata, m.dict)>>
                                    ELSE <<>>]]]
              /\ now' = t2
              /\ ret' = ret
  /\ UNCHANGED <<configVars, chunkVars, documents, embeddings, dollar_keys,
                 n_success, patched_keys>>

\* A $set that leaves the content field alone.
ApplySetKeepsContent(doc, update_data) ==
  [doc EXCEPT !.updated_at = update_data.updated_at,
              !.push = update_data.push,
              !.metadata = IF update_data.metadata = <<>> THEN @
                           ELSE update_data.metadata[1]]

\* The document after {"$set": update_data} on a server that stores the
\* "$push" key of update_data as a field: every key of update_data replaces
\* the field of that name, version_history is not among them.
ApplySet(doc, update_data) ==
  [doc EXCEPT !.content = update_data.content,
              !.updated_at = update_data.updated_at,
              !.push = update_data.push,
              !.metadata = IF update_data.metadata = <<>> THEN @
                           ELSE update_data.metadata[1]]

\* An update that writes the new document over every document.
UpdateEvery(docs, d, new) == [e \in DOMAIN docs |-> new]

\* update_one with the filter {"document_id": document_id} (lines 68-70):
\* the one document of that id is replaced.
UpdateOne(docs, d, new) == [docs EXCEPT ![d] = new]

\* An update that drops the chunk rows of the document it writes.
ChunksDroppedByUpdate(table, d) ==
  SelectSeq(table, LAMBDA r : r.document_id # d)

\* The document_embeddings table after update_one (lines 68-71): the call
\* writes to the documents collection only.
ChunksAfterUpdate(table, d) == table

\* update_document, lines 68-73: update_one and the returned flag.  A server
\* that rejects the "$push" key under $set raises a write error instead.
UpdateWrite(p) ==
  /\ calls[p].op = "update_document"
  /\ LET d == calls[p].document_id
         old == documents[d]
         new == ApplySet(old, calls[p].update_data)
         modified_count == IF new # old THEN 1 ELSE 0
     IN  IF dollar_keys = "reject"
         THEN /\ ret' = [op |-> "update_document", document_id |-> d,
                         raised |-> "WriteError"]
              /\ UNCHANGED <<documents, embeddings, n_success, patched_keys>>
         ELSE /\ documents' = UpdateOne(documents, d, new)
              /\ embeddings' = ChunksAfterUpdate(embeddings, d)
              /\ ret' = [op |-> "update_document", document_id |-> d,
                         result |-> modified_count > 0]
              /\ n_success' = [n_success EXCEPT ![d] =
                                 IF modified_count > 0 THEN @ + 1 ELSE @]
              /\ patched_keys' = [patched_keys EXCEPT ![d] =
                                    IF modified_count > 0
                                    THEN @ \cup DOMAIN calls[p].patch
                                    ELSE @]
  /\ calls' = [calls EXCEPT ![p] = Idle]
  /\ UNCHANGED <<configVars, chunkVars, now, dollar_keys, n_calls>>

\* An unknown id reported by raising.
VectorizeMissingRaises(d) ==
  [op |-> "vectorize_document", document_id |-> d,
   raised |-> "NotFound", found |-> FALSE]

\* vectorize_document, lines 65-66: what the call returns for an unknown id.
VectorizeMissing(d) ==
  [op |-> "vectorize_document", document_id |-> d,
   result |-> <<>>, found |-> FALSE]

\* Bookkeeping: a Vectorize call on d is starting right after a Vectorize
\* call on d returned its chunk ids, nothing else has returned since, no
\* other call is in flight, and the content is the one that call read.
FollowsVectorize(d) ==
  /\ \A q \in Procs : calls[q] = Idle
  /\ ret.op = "vectorize_document"
  /\ "result" \in DOMAIN ret
  /\ ret.found
  /\ ret.document_id = d
  /\ ret.content = documents[d].content

\* vectorize_document, lines 64-72: find_one, the early return, chunk_text.
\* A chunk_text call that never returns leaves the handler hung.  follows
\* and seen are bookkeeping: FollowsVectorize and the number of rows in the
\* table when the call started.
VectorizeRead(p, d) ==
  /\ FreeWorker(p)
  /\ n_calls < MaxCalls
  /\ n_calls' = n_calls + 1
  /\ IF d \notin DOMAIN documents
     THEN /\ ret' = VectorizeMissing(d)
          /\ calls' = calls
     ELSE LET r == ChunkText(documents[d].content, chunk_size, chunk_overlap)
          IN  /\ calls' = [calls EXCEPT ![p] =
                   IF r.ok
                   THEN [op |-> "vectorize_document", document_id |-> d,
                         content |-> documents[d].content,
                         chunks |-> r.chunks,
                         follows |-> FollowsVectorize(d),
                         seen |-> Len(embeddings)]
                   ELSE [op |-> "hung", document_id |-> d]]
              /\ ret' = ret
  /\ UNCHANGED <<configVars, chunkVars, documents, embeddings, now,
                 dollar_keys, n_success, patched_keys>>

\* A loop that takes its first chunk from the list computed at line 72 and
\* the later ones from the document as it is when the rows are written.
ChunksReread(call, docs) ==
  LET again == ChunkText(docs[call.document_id].content,
                         chunk_size, chunk_overlap).chunks
  IN  IF call.chunks = <<>> THEN <<>>
      ELSE IF again = <<>> THEN <<call.chunks[1]>>
      ELSE <<call.chunks[1]>> \o Tail(again)

\* The chunks the loop of lines 77-89 iterates: the local list computed at
\* line 72 from the one find_one of line 64, whatever the document is now.
ChunksToPersist(call, docs) == call.chunks

\* A failed write after which the rows already taken remain.
AfterFailureKeepsStaged(committed, staged) == committed \o staged

\* The table after a failure between the first db.add (line 88) and the
\* end of db.commit() (line 91): the rows were added in one transaction of
\* the session, which was not committed.
AfterFailure(committed, staged) == committed

\* vectorize_document, lines 75-93: one row per chunk, then the commit.
VectorizeCommit(p) ==
  /\ calls[p].op = "vectorize_document"
  /\ LET d == calls[p].document_id
         cs == ChunksToPersist(calls[p], documents)
         rows == [i \in 1..Len(cs) |->
                    [document_id |-> d,
                     chunk_id |-> ChunkId(d, i - 1),
                     chunk_text |-> cs[i],
                     embedding |-> <<>>]]
         chunk_ids == [i \in 1..Len(cs) |-> ChunkId(d, i - 1)]
     IN  /\ embeddings' = embeddings \o rows
         /\ ret' = [op |-> "vectorize_document", document_id |-> d,
                    result |-> chunk_ids, found |-> TRUE,
                    content |-> calls[p].content]
  /\ calls' = [calls EXCEPT ![p] = Idle]
  /\ UNCHANGED <<configVars, chunkVars, documents, now, dollar_keys,
                 n_calls, n_success, patched_keys>>

\* vectorize_document, lines 77-91, when the database fails after taking k
\* of the rows: the exception leaves the call, nothing was committed.
VectorizeFail(p) ==
  /\ calls[p].op = "vectorize_document"
  /\ LET d == calls[p].document_id
         cs == ChunksToPersist(calls[p], documents)
     IN  \E k \in 0..Len(cs) :
           LET staged == [i \in 1..k |->
                            [document_id |-> d,
                             chunk_id |-> ChunkId(d, i - 1),
                             chunk_text |-> cs[i],
                             embedding |-> <<>>]]
           IN  /\ embeddings' = AfterFailure(embeddings, staged)
               /\ ret' = [op |-> "vectorize_document", document_id |-> d,
                          raised |-> "SQLAlchemyError", found |-> TRUE,
                          staged |-> k, total |-> Len(cs)]
  /\ calls' = [calls EXCEPT ![p] = Idle]
  /\ UNCHANGED <<configVars, chunkVars, documents, now, dollar_keys,
                 n_calls, n_success, patched_keys>>

\* str(embedding) of a list of numbers, as a text: "[1, 2]".
RECURSIVE StrItems(_)
StrItems(v) ==
  IF v = <<>> THEN <<>>
  ELSE IF Len(v) = 1 THEN <<ToString(v[1])>>
  ELSE <<ToString(v[1]), ",", " ">> \o StrItems(Tail(v))

Str(v) == <<"[">> \o StrItems(v) \o <<"]">>

\* update_embedding (lines 112-126): .first() of the rows with that
\* chunk_id, in no stated order; False when there is none; else the row's
\* embedding becomes str(embedding) and the call returns True.
UpdateEmbedding(chunk_id, embedding) ==
  /\ n_calls < MaxCalls
  /\ n_calls' = n_calls + 1
  /\ LET hits == {i \in 1..Len(embeddings) :
                    embeddings[i].chunk_id = chunk_id}
     IN  IF hits = {}
         THEN /\ ret' = [op |-> "update_embedding", chunk_id |-> chunk_id,
                         result |-> FALSE]
              /\ embeddings' = embeddings
         ELSE \E i \in hits :
                /\ embeddings' = [embeddings EXCEPT
                                    ![i].embedding = Str(embedding)]
                /\ ret' = [op |-> "update_embedding", chunk_id |-> chunk_id,
                           result |-> TRUE]
  /\ UNCHANGED <<configVars, chunkVars, documents, now, dollar_keys, calls,
                 n_success, patched_keys>>

\* A DocumentContent that carries the content of the oldest version kept
\* with the document where there is one.
DocumentContentStale(d, doc) ==
  [document_id |-> d,
   content |-> IF doc.push # <<>> THEN doc.push[1].content ELSE doc.content,
   metadata |-> doc.metadata,
   version_history |-> doc.version_history]

\* DocumentContent(...) of lines 82-87, built from the stored document.
DocumentContentOf(d, doc) ==
  [document_id |-> d,
   content |-> doc.content,
   metadata |-> doc.metadata,
   version_history |-> doc.version_history]

\* get_document_content (lines 76-87): None for an unknown id, else the
\* DocumentContent built from the stored document.
GetContent(d) ==
  /\ n_calls < MaxCalls
  /\ n_calls' = n_calls + 1
  /\ ret' = IF d \notin DOMAIN documents
            THEN [op |-> "get_document_content", document_id |-> d,
                  found |-> FALSE]
            ELSE [op |-> "get_document_content", document_id |-> d,
                  found |-> TRUE,
                  result |-> DocumentContentOf(d, documents[d])]
  /\ UNCHANGED <<configVars, chunkVars, documents, embeddings, now,
                 dollar_keys, calls, n_success, patched_keys>>

\* get_document_chunks (lines 96-109).
GetChunks(d) ==
  /\ n_calls < MaxCalls
  /\ n_calls' = n_calls + 1
  /\ ret' = [op |-> "get_document_chunks", document_id |-> d,
             result |-> DocumentChunks(d)]
  /\ UNCHANGED <<configVars, chunkVars, documents, embeddings, now,
                 dollar_keys, calls, n_success, patched_keys>>

Next ==
  \/ \E d \in DocIds, c \in Contents : Create(d, c, "old")
  \/ \E p \in Procs, d \in DocIds, c \in Contents, m \in Patches :
       UpdateRead(p, d, c, m)
  \/ \E p \in Procs : UpdateWrite(p)
  \/ \E p \in Procs, d \in DocIds : VectorizeRead(p, d)
  \/ \E p \in Procs : VectorizeCommit(p)
  \/ \E p \in Procs : VectorizeFail(p)
  \/ \E d \in DocIds : GetContent(d)
  \/ \E chunk_id \in EmbeddingIds, embedding \in Vectors :
       UpdateEmbedding(chunk_id, embedding)
  \/ \E d \in DocIds : GetChunks(d)

Spec == Init /\ [][Next]_vars

ValidConfig == 0 <= chunk_overlap /\ chunk_overlap < chunk_size

\* The stepwise call and the function agree on every returned value.
StepwiseAgrees ==
  pc = "done" =>
    LET r == ChunkText(content, chunk_size, chunk_overlap)
    IN  r.ok /\ r.chunks = chunks

\* A call the function reports as never returning is never at "done".
DivergenceAgrees ==
  ~ChunkText(content, chunk_size, chunk_overlap).ok => pc # "done"

\* ------------------------------------------------- chunk_text properties
\* The non-whitespace characters of s, and the index in s of the j-th one.
NonWs(s) == SelectSeq(s, LAMBDA c : c \notin Whitespace)

PosOf(s, j) ==
  CHOOSE i \in 1..Len(s) :
    /\ s[i] \notin Whitespace
    /\ Cardinality({k \in 1..i : s[k] \notin Whitespace}) = j

\* The number of places where two successive words of s are separated.
Gaps(s) ==
  Cardinality({j \in 1..(Len(NonWs(s)) - 1) : PosOf(s, j + 1) - PosOf(s, j) > 1})

\* The length of s once every run of whitespace is one space and the ends
\* are trimmed.
NormLen(s) == Len(NonWs(s)) + Gaps(s)

\* c is raw with runs of whitespace collapsed to one space and the leading
\* and trailing whitespace removed.
NormalForm(c, raw) ==
  /\ NonWs(c) = NonWs(raw)
  /\ \A i \in 1..Len(c) : c[i] \in Whitespace => c[i] = " "
  /\ c # <<>> => c[1] # " " /\ c[Len(c)] # " "
  /\ \A i \in 1..(Len(c) - 1) : ~(c[i] = " " /\ c[i + 1] = " ")
  /\ \A j \in 1..(Len(NonWs(raw)) - 1) :
       (PosOf(c, j + 1) - PosOf(c, j) > 1) <=> (PosOf(raw, j + 1) - PosOf(raw, j) > 1)

AllWhitespace(s) == \A i \in 1..Len(s) : s[i] \in Whitespace

\* The last n and the first n characters of s.
Suffix(s, n) == SubSeq(s, Len(s) - n + 1, Len(s))
Prefix(s, n) == SubSeq(s, 1, n)

\* C1: with 0 <= chunk_overlap < chunk_size the loop of chunk_text comes to
\* an end: the iteration that emits the chunk ending at the end of the text
\* leaves the cursor at or past the length of the text.
C1_LoopEndsAfterFinalChunk ==
  [][(/\ ValidConfig
      /\ pc = "loop"
      /\ start < Len(text)
      /\ LoopBody(text, start, chunk_size, chunk_overlap).end = Len(text))
       => ~(start' < Len(text'))]_vars

\* C6: with chunk_overlap < chunk_size, every two consecutive chunks, the
\* second of which is not the last one emitted, share chunk_overlap
\* characters: the last chunk_overlap characters of the first are the first
\* chunk_overlap characters of the second.
C6_ConsecutiveOverlap ==
  ValidConfig =>
    \A i \in 1..(Len(chunks) - 2) :
      /\ Len(chunks[i]) >= chunk_overlap
      /\ Len(chunks[i + 1]) >= chunk_overlap
      /\ Suffix(chunks[i], chunk_overlap) = Prefix(chunks[i + 1], chunk_overlap)

\* C7: a text whose normalized form is non-empty and at most chunk_size long
\* comes back as exactly one chunk, the normalized text.
C7_ShortTextOneChunk ==
  (pc = "done" /\ NonWs(content) # <<>> /\ NormLen(content) <= chunk_size) =>
    Len(chunks) = 1 /\ NormalForm(chunks[1], content)

C7_Witness ==
  /\ pc = "done"
  /\ NonWs(content) # <<>>
  /\ NormLen(content) <= chunk_size
  /\ content[1] \in Whitespace
  /\ Gaps(content) >= 1
  /\ Len(chunks) = 1
  /\ Len(chunks[1]) + 2 <= Len(content)

\* C8: an empty or whitespace-only text comes back as zero chunks.
C8_BlankTextNoChunks ==
  (pc = "done" /\ AllWhitespace(content)) => chunks = <<>>

\* C9: with chunk_overlap < chunk_size no emitted chunk is longer than
\* chunk_size.
C9_ChunkWithinSize ==
  ValidConfig => \A i \in 1..Len(chunks) : Len(chunks[i]) <= chunk_size

C9_Witness ==
  /\ ValidConfig
  /\ pc = "loop"
  /\ Len(chunks) >= 2
  /\ Len(chunks[1]) < chunk_size
  /\ Len(chunks[2]) = chunk_size

\* ------------------------------------------------------ store properties
\* A step in which an Update on d returned true.
UpdateSucceeded(d) == n_success'[d] = n_success[d] + 1

\* C2: after a successful Update the most recent version entry holds the
\* content and metadata that were current immediately before that Update.
C2_LastEntryIsPrior ==
  [][\A d \in DocIds :
       UpdateSucceeded(d) =>
         LET vh == documents'[d].version_history
         IN  /\ vh # <<>>
             /\ vh[Len(vh)].content = documents[d].content
             /\ vh[Len(vh)].metadata = documents[d].metadata]_vars

\* C3: the version history of a document is as long as the number of
\* Updates on it that succeeded.
C3_HistoryCountsUpdates ==
  \A d \in DOMAIN documents :
    Len(documents[d].version_history) = n_success[d]

\* C4: concurrent Updates on one document behave as some serial order of
\* them: no metadata key written by the patch of a successful Update is
\* missing from the document afterwards.
C4_NoPatchKeyLost ==
  \A d \in DOMAIN documents :
    patched_keys[d] \subseteq DOMAIN documents[d].metadata

\* The last call to return was a Vectorize that found its document and
\* returned its chunk ids.
VectorizeReturned ==
  ret.op = "vectorize_document" /\ "result" \in DOMAIN ret /\ ret.found

\* C5: after a successful Vectorize the chunk records stored for the
\* document are exactly the chunks of that call, each chunk_id once.
C5_OnlyLatestChunks ==
  VectorizeReturned =>
    LET listed == DocumentChunks(ret.document_id)
    IN  /\ Len(listed) = Len(ret.result)
        /\ \A i, j \in 1..Len(listed) :
             listed[i].chunk_id = listed[j].chunk_id => i = j

\* C10: Vectorize on a document whose content chunks into n pieces returns
\* "{document_id}-chunk-0" .. "{document_id}-chunk-(n-1)" in order, and the
\* record it stores for index i carries the i-th chunk.
C10_GaplessChunkIds ==
  VectorizeReturned =>
    LET d == ret.document_id
        pieces == ChunkText(ret.content, chunk_size, chunk_overlap).chunks
        n == Len(pieces)
        base == Len(embeddings) - n
    IN  /\ Len(ret.result) = n
        /\ base >= 0
        /\ \A i \in 1..n :
             /\ ret.result[i] = d \o "-chunk-" \o ToString(i - 1)
             /\ embeddings[base + i].document_id = d
             /\ embeddings[base + i].chunk_id = d \o "-chunk-" \o ToString(i - 1)
             /\ embeddings[base + i].chunk_text = pieces[i]

C10_Witness ==
  /\ VectorizeReturned
  /\ Len(ret.result) >= 2
  /\ ret.result[2] = "d1-chunk-1"
  /\ embeddings[Len(embeddings)].chunk_text = <<"c">>

\* The chunk texts listed for d, in order, when the table is table.
ChunkTexts(table, d) ==
  LET rows == SelectSeq(table, LAMBDA r : r.document_id = d)
  IN  [i \in 1..Len(rows) |-> rows[i].chunk_text]

\* C11: a Vectorize call that follows a Vectorize call on the same document,
\* with no Update and no other write to the table in between, returns the
\* chunk ids the first call returned and leaves the document with the chunk
\* texts it had after the first call.
C11_RepeatVectorizeSame ==
  [][\A p \in Procs, d \in DocIds :
       (/\ calls[p].op = "vectorize_document"
        /\ calls[p].document_id = d
        /\ calls[p].follows
        /\ calls[p].seen = Len(embeddings)
        /\ VectorizeReturned
        /\ ret.document_id = d
        /\ ret.content = calls[p].content
        /\ VectorizeCommit(p))
         => /\ ret'.result = ret.result
            /\ ChunkTexts(embeddings', d) = ChunkTexts(embeddings, d)]_vars

\* C12: Vectorize on an id that is not in the collection returns the empty
\* list, raises nothing, and leaves the table as it was.
C12_VectorizeUnknownId ==
  [][\A d \in DocIds :
       (d \notin DOMAIN documents /\ \E p \in Procs : VectorizeRead(p, d))
         => /\ ret'.op = "vectorize_document"
            /\ ret'.document_id = d
            /\ "raised" \notin DOMAIN ret'
            /\ "result" \in DOMAIN ret'
            /\ ret'.result = <<>>
            /\ embeddings' = embeddings
            /\ calls' = calls]_vars

C12_Witness ==
  /\ ret.op = "vectorize_document"
  /\ ~ret.found
  /\ ret.document_id \notin DOMAIN documents
  /\ documents # <<>>
  /\ embeddings # <<>>

\* Worker p completes an Update on d in this step.
UpdateCompletes(p, d) ==
  /\ calls[p].op = "update_document"
  /\ calls[p].document_id = d
  /\ calls'[p] = Idle

\* C13: a successful Update leaves the metadata as the shallow merge of the
\* metadata the document had before the write and the patch: the patch's
\* value for every key of the patch, the old value for every other key, and
\* no further key.
C13_MetadataShallowMerge ==
  [][\A p \in Procs, d \in DocIds :
       (UpdateCompletes(p, d) /\ UpdateSucceeded(d))
         => LET old == documents[d].metadata
                patch == calls[p].patch
                new == documents'[d].metadata
            IN  /\ DOMAIN new = (DOMAIN old) \cup (DOMAIN patch)
                /\ \A k \in DOMAIN patch : new[k] = patch[k]
                /\ \A k \in (DOMAIN old) \ (DOMAIN patch) : new[k] = old[k]]_vars

\* C14: Update on an id that is not in the collection returns False, raises
\* nothing, and changes no document, no chunk record and no call in flight.
C14_UpdateUnknownId ==
  [][\A d \in DocIds :
       (/\ d \notin DOMAIN documents
        /\ \E p \in Procs, c \in Contents, m \in Patches : UpdateRead(p, d, c, m))
         => /\ ret'.op = "update_document"
            /\ ret'.document_id = d
            /\ "raised" \notin DOMAIN ret'
            /\ ret'.result = FALSE
            /\ documents' = documents
            /\ embeddings' = embeddings
            /\ calls' = calls]_vars

C14_Witness ==
  /\ ret.op = "update_document"
  /\ ret.document_id \notin DOMAIN documents
  /\ "result" \in DOMAIN ret
  /\ ~ret.result
  /\ documents # <<>>

\* C15: every Update on an id that is in the collection returns True.
C15_UpdateExistingReturnsTrue ==
  [][\A p \in Procs, d \in DocIds :
       UpdateCompletes(p, d)
         => /\ "result" \in DOMAIN ret'
            /\ ret'.result = TRUE]_vars

\* C16: a successful Update leaves its new_content as the content of the
\* document; from then on the content changes only in a successful Update
\* on that document, and GetContent returns it.
C16_ContentIsLastUpdate ==
  [][\A d \in DOMAIN documents :
       /\ UpdateSucceeded(d) =>
            \E p \in Procs :
              /\ UpdateCompletes(p, d)
              /\ documents'[d].content = calls[p].update_data.content
       /\ (n_success[d] > 0 /\ ~UpdateSucceeded(d)) =>
            documents'[d].content = documents[d].content
       /\ (n_success[d] > 0 /\ GetContent(d)) =>
            /\ ret'.found
            /\ ret'.result.content = documents[d].content]_vars

C16_Witness ==
  /\ ret.op = "get_document_content"
  /\ ret.found
  /\ n_success[ret.document_id] = 1
  /\ documents[ret.document_id].push # <<>>
  /\ documents[ret.document_id].push[1].content # ret.result.content
  /\ ret.result.content = <<"a", "b", "c">>

\* C17: a Vectorizer with chunk_overlap >= chunk_size is refused when it is
\* constructed: no call of chunk_text gets past its entry with such a
\* configuration.
C17_InvalidConfigNeverRuns ==
  pc \in {"loop", "done"} => chunk_overlap < chunk_size

\* The rows of table that belong to document d, in order.
Rows(table, d) == SelectSeq(table, LAMBDA r : r.document_id = d)

\* C18: a Vectorize call whose writes fail part of the way raises, and the
\* rows listed for its document afterwards are the rows listed before the
\* call or the rows of the call's chunks, nothing in between.
C18_FailedVectorizeAllOrNothing ==
  [][\A p \in Procs, d \in DocIds :
       (/\ calls[p].op = "vectorize_document"
        /\ calls[p].document_id = d
        /\ VectorizeFail(p))
         => /\ "raised" \in DOMAIN ret'
            /\ "result" \notin DOMAIN ret'
            /\ \/ Rows(embeddings', d) = Rows(embeddings, d)
               \/ ChunkTexts(embeddings', d) = calls[p].chunks]_vars

C18_Witness ==
  /\ ret.op = "vectorize_document"
  /\ "raised" \in DOMAIN ret
  /\ ret.staged = 1
  /\ ret.total = 2
  /\ Rows(embeddings, ret.document_id) # <<>>

\* This step belongs to an Update or a Vectorize call on document a.
StepOn(a) ==
  \/ \E p \in Procs, c \in Contents, m \in Patches : UpdateRead(p, a, c, m)
  \/ \E p \in Procs : VectorizeRead(p, a)
  \/ \E p \in Procs :
       /\ calls[p] # Idle
       /\ calls[p].document_id = a
       /\ UpdateWrite(p) \/ VectorizeCommit(p) \/ VectorizeFail(p)

\* Document b is after this step what it was before it: its stored fields
\* and its chunk records.
Untouched(b) ==
  /\ b \in DOMAIN documents'
  /\ documents'[b] = documents[b]
  /\ Rows(embeddings', b) = Rows(embeddings, b)

\* C19: a step of Update or Vectorize on document a leaves every other
\* document b as it was (written as: b is untouched, or else the step is
\* not a step on another document).
C19_OtherDocumentsUntouched ==
  [][\A a \in DocIds, b \in DOMAIN documents :
       a # b => (Untouched(b) \/ ~StepOn(a))]_vars

C19_Witness ==
  /\ DOMAIN documents = DocIds
  /\ ret.op = "update_document"
  /\ "result" \in DOMAIN ret
  /\ ret.result
  /\ ret.document_id = "d1"
  /\ n_success["d2"] = 0
  /\ documents["d2"].content # documents["d1"].content

\* C20: the rows one Vectorize call writes are the chunks of one version of
\* the content: of the content the call read, or of the content the
\* document has when the rows are written.
C20_ChunksOfOneVersion ==
  [][\A p \in Procs, d \in DocIds :
       (/\ calls[p].op = "vectorize_document"
        /\ calls[p].document_id = d
        /\ VectorizeCommit(p))
         => LET n == Len(embeddings)
                written == [i \in 1..(Len(embeddings') - n) |->
                              embeddings'[n + i].chunk_text]
            IN  \E c \in {calls[p].content, documents[d].content} :
                  written = ChunkText(c, chunk_size, chunk_overlap).chunks]_vars

C20_Witness ==
  /\ VectorizeReturned
  /\ documents[ret.document_id].content # ret.content
  /\ n_success[ret.document_id] = 1
  /\ Len(ret.result) = 2

\* C21: update_embedding on a chunk_id that no row has returns False and
\* changes no row; on a chunk_id that a row has it returns True, and then
\* every row of that chunk_id carries the given vector as its embedding,
\* and every text and every other embedding is what it was.
C21_UpdateEmbeddingSetsVector ==
  [][\A cid \in EmbeddingIds, v \in Vectors :
       UpdateEmbedding(cid, v) =>
         IF \A i \in 1..Len(embeddings) : embeddings[i].chunk_id # cid
         THEN /\ ret'.result = FALSE
              /\ embeddings' = embeddings
         ELSE /\ ret'.result = TRUE
              /\ Len(embeddings') = Len(embeddings)
              /\ \A i \in 1..Len(embeddings) :
                   /\ embeddings'[i].document_id = embeddings[i].document_id
                   /\ embeddings'[i].chunk_id = embeddings[i].chunk_id
                   /\ embeddings'[i].chunk_text = embeddings[i].chunk_text
                   /\ embeddings'[i].embedding =
                        IF embeddings[i].chunk_id = cid
                        THEN v ELSE embeddings[i].embedding]_vars

\* C22: the document a Create has just stored has an empty version history
\* and a created_at equal to its updated_at.
C22_CreatedEqualsUpdated ==
  [][\A d \in DocIds :
       (d \notin DOMAIN documents /\ d \in DOMAIN documents')
         => /\ documents'[d].version_history = <<>>
            /\ documents'[d].created_at = documents'[d].updated_at]_vars

\* C23: get_document_content returns None for an id that is not in the
\* collection, and otherwise the stored content, metadata and version
\* history of the document; it changes no document, row or call in flight.
C23_GetContentReadsStore ==
  [][\A d \in DocIds :
       GetContent(d) =>
         /\ ret'.op = "get_document_content"
         /\ ret'.document_id = d
         /\ ret'.found = (d \in DOMAIN documents)
         /\ d \notin DOMAIN documents => "result" \notin DOMAIN ret'
         /\ d \in DOMAIN documents =>
              /\ ret'.result.content = documents[d].content
              /\ ret'.result.metadata = documents[d].metadata
              /\ ret'.result.version_history = documents[d].version_history
         /\ documents' = documents
         /\ embeddings' = embeddings
         /\ calls' = calls]_vars

C23_Witness ==
  /\ ret.op = "get_document_content"
  /\ ret.found
  /\ ret.document_id = "d1"
  /\ "d2" \notin DOMAIN documents
  /\ n_success["d1"] = 1
  /\ "k" \in DOMAIN ret.result.metadata
  /\ ret.result.content = <<"a">>
  /\ documents["d1"].push[1].content = <<"a", "b", "c">>

\* This step belongs to a Create or an Update.
CreateOrUpdateStep ==
  \/ \E d \in DocIds, c \in Contents : Create(d, c, "old")
  \/ \E p \in Procs, d \in DocIds, c \in Contents, m \in Patches :
       UpdateRead(p, d, c, m)
  \/ \E p \in Procs : UpdateWrite(p)

\* C24: no step of Create or Update adds, replaces or removes a chunk
\* record (written as: the table is unchanged, or else the step is not one
\* of theirs), so the rows a Vectorize call wrote are still there after an
\* Update.
C24_OnlyVectorizeWritesChunks ==
  [][embeddings' = embeddings \/ ~CreateOrUpdateStep]_vars

C24_Witness ==
  /\ ret.op = "update_document"
  /\ "result" \in DOMAIN ret
  /\ ret.result
  /\ ChunkTexts(embeddings, ret.document_id) = <<<<"a", "b">>, <<"c">>>>
  /\ documents[ret.document_id].content = <<"a">>

\* ------------------------------------------- chunk_text, the cursor
\* C26: with 0 <= chunk_overlap < chunk_size, every iteration of the loop
\* leaves the cursor strictly greater than it found it, or else the call
\* stops with a configuration error.
C26_CursorStrictlyAdvances ==
  [][(ValidConfig /\ pc = "loop" /\ start < Len(text))
       => (start' > start \/ pc' = "error")]_vars

\* The offsets o in the candidate [cursor, cursor + chunk_size) at which a
\* period followed by a space begins.
SentenceOffsets ==
  {o \in 0..(chunk_size - 2) :
     /\ start + o >= 0
     /\ start + o + 2 <= Len(text)
     /\ text[start + o + 1] = "."
     /\ text[start + o + 2] = " "}

\* C27: with 0 <= chunk_overlap < chunk_size, an iteration whose candidate
\* end is before the end of the text emits: the candidate up to and
\* including the last period that is followed by a space, when that period
\* is at an offset greater than chunk_size / 2; and otherwise the whole
\* candidate of chunk_size characters.
C27_SentenceCutOrFullCandidate ==
  [][(/\ ValidConfig
      /\ pc = "loop"
      /\ start < Len(text)
      /\ start + chunk_size < Len(text)
      /\ Len(chunks) < MaxChunks)
       => LET emitted == chunks'[Len(chunks')]
              last == CHOOSE o \in SentenceOffsets :
                        \A q \in SentenceOffsets : q <= o
          IN  /\ Len(chunks') = Len(chunks) + 1
              /\ IF SentenceOffsets # {} /\ 2 * last > chunk_size
                 THEN /\ Len(emitted) = last + 1
                      /\ emitted[Len(emitted)] = "."
                      /\ \A i \in 1..(last + 1) :
                           start + i >= 1 /\ emitted[i] = text[start + i]
                 ELSE /\ Len(emitted) = chunk_size
                      /\ \A i \in 1..chunk_size :
                           start + i >= 1 /\ emitted[i] = text[start + i]]_vars

\* C29: with 0 <= chunk_overlap < chunk_size the cursor is never negative,
\* and no chunk emitted is empty.
C29_CursorInRange ==
  (ValidConfig /\ pc = "loop") =>
    /\ 0 <= start
    /\ \A i \in 1..Len(chunks) : chunks[i] # <<>>

\* ---------------------------- chunk_text without the paragraph search
\* One iteration of the loop with lines 41-45 removed: the sentence rule
\* and the cut at chunk_size only.
LoopBodyNoParagraph(t, st, size, overlap) ==
  LET end0 == st + size
      end1 == IF end0 > Len(t) THEN Len(t) ELSE end0
      chunk0 == Slice(t, st, end1)
      sentence_break == RFind(chunk0, ".", " ")
      cut == IF end1 < Len(t) /\ sentence_break # -1
                /\ sentence_break > size \div 2
             THEN [chunk |-> Slice(chunk0, 0, sentence_break + 1),
                   end |-> st + sentence_break + 1]
             ELSE [chunk |-> chunk0, end |-> end1]
  IN  [chunk |-> cut.chunk, end |-> cut.end, next |-> cut.end - overlap]

RECURSIVE ChunkLoopFromNoParagraph(_, _, _, _, _, _)
ChunkLoopFromNoParagraph(t, st, size, overlap, acc, seen) ==
  IF ~(st < Len(t)) THEN [ok |-> TRUE, chunks |-> acc]
  ELSE IF st \in seen \/ st < -MaxBack THEN [ok |-> FALSE, chunks |-> acc]
  ELSE LET b == LoopBodyNoParagraph(t, st, size, overlap)
       IN  ChunkLoopFromNoParagraph(t, b.next, size, overlap,
                                    Append(acc, b.chunk), seen \cup {st})

\* The text as the loop sees it: what lines 18-22 make of the argument.
Cleaned(c) == IF c = <<>> THEN <<>> ELSE Normalize(c)

ChunkTextNoParagraph(c, size, overlap) ==
  IF c = <<>> THEN [ok |-> TRUE, chunks |-> <<>>]
  ELSE LET t == Cleaned(c)
       IN  IF Len(t) <= size THEN [ok |-> TRUE, chunks |-> <<t>>]
           ELSE ChunkLoopFromNoParagraph(t, 0, size, overlap, <<>>, {})

\* C28: for every text and configuration, chunk_text returns what the same
\* algorithm without the paragraph search returns, and in no iteration of
\* its loop does the search of line 42 find a paragraph break.
C28_ParagraphBranchDead ==
  /\ pc = "done" =>
       LET r == ChunkTextNoParagraph(content, chunk_size, chunk_overlap)
       IN  r.ok /\ r.chunks = chunks
  /\ (pc = "loop" /\ start < Len(text)) =>
       RFind(Slice(text, start, Min(start + chunk_size, Len(text))),
             "\n", "\n") = -1

C28_Witness ==
  /\ pc = "done"
  /\ Len(chunks) >= 2
  /\ Len(chunks[1]) = chunk_size
  /\ \E i \in 1..(Len(content) - 2) :
       /\ content[i] = "\n"
       /\ content[i + 1] = "\n"
       /\ content[i + 2] \notin Whitespace
       /\ i - 1 > chunk_size \div 2
       /\ i + 1 <= chunk_size + 1

\* The first n iterations of the loop on t: where each began and ended.
RECURSIVE Spans(_, _, _, _, _)
Spans(t, st, size, overlap, n) ==
  IF n = 0 THEN <<>>
  ELSE LET b == LoopBody(t, st, size, overlap)
       IN  <<[start |-> st, end |-> b.end]>>
             \o Spans(t, b.next, size, overlap, n - 1)

\* C30: the chunks a call returns cover the cleaned text (text, once the
\* call is past line 22): the first begins
\* at offset 0, the last ends at the end of the text, each begins no later
\* than the one before it ended, each is the text between its begin and
\* its end, and so every position of the text is in some chunk.
C30_ChunksCoverText ==
  pc = "done" =>
    IF chunks = <<>> THEN text = <<>>
    ELSE IF Len(text) <= chunk_size THEN chunks = <<text>>
    ELSE LET t == text
             n == Len(chunks)
             sp == Spans(t, 0, chunk_size, chunk_overlap, n)
         IN  /\ sp[1].start = 0
             /\ sp[n].end = Len(t)
             /\ \A i \in 1..(n - 1) : sp[i + 1].start <= sp[i].end
             /\ \A i \in 1..n :
                  /\ 0 <= sp[i].start
                  /\ sp[i].start <= sp[i].end
                  /\ sp[i].end <= Len(t)
                  /\ chunks[i] = SubSeq(t, sp[i].start + 1, sp[i].end)
             /\ \A pos \in 1..Len(t) :
                  \E i \in 1..n : sp[i].start < pos /\ pos <= sp[i].end

C30_Witness ==
  /\ pc = "done"
  /\ Len(chunks) >= 2
  /\ Len(chunks[1]) < chunk_size
  /\ chunks[1][Len(chunks[1])] = "."
  /\ chunks[2][1] = " "
====
